---- MODULE Spec2Model ----
(***************************************************************************)
(* Training loop of the calcium-imaging VAE, in its two variants:          *)
(*   "script" : src/simulations.py       (top-level script)                *)
(*   "lib"    : src/snDGM/sndgm/avae.py  (main() of the library variant)   *)
(* The neural network itself is abstracted: a forward pass yields the      *)
(* elementwise sums of the reconstruction and KL terms, and the model      *)
(* parameters are represented by the number of optimizer steps applied.    *)
(* Floating-point values are exact rationals extended with +-inf and NaN.  *)
(***************************************************************************)
EXTENDS Integers, Sequences, FiniteSets, TLC

\* ------------------------------------------------------------------ bounds
\* epochs range up to patience + MaxExtraEpochs
MaxExtraEpochs == 2
\* largest number of rows (traces) of the input matrix
MaxRows == 6
\* largest configured batch size
MaxBatch == 3

\* -------------------------------------------------------- program constants
ScriptPatience == 5
LibPatience == 10
\* min_delta = 0.005 = 1/200 in the script
ScriptMinDeltaDen == 200
\* test_size = 0.20 = 1/5 in both variants
TestSizeDen == 5

\* ------------------------------------------------------------------ floats
Abs(i) == IF i < 0 THEN -i ELSE i

RECURSIVE GCD(_, _)
GCD(a, b) == IF b = 0 THEN a ELSE GCD(b, a % b)

\* the finite value n/d, normalised
Fin(n, d) ==
    LET s == IF d < 0 THEN -1 ELSE 1
        g == GCD(Abs(n), Abs(d))
    IN  [k |-> "fin", n |-> (s * n) \div g, d |-> (s * d) \div g]

NaN == [k |-> "nan", n |-> 0, d |-> 1]
Inf(s) == [k |-> "inf", n |-> s, d |-> 1]
Zero == Fin(0, 1)

IsFinite(a) == a.k = "fin"
Sign(a) == IF a.n > 0 THEN 1 ELSE IF a.n < 0 THEN -1 ELSE 0

FNeg(a) == IF a.k = "nan" THEN NaN ELSE [a EXCEPT !.n = -a.n]

FAdd(a, b) ==
    IF a.k = "nan" \/ b.k = "nan" THEN NaN
    ELSE IF a.k = "inf" /\ b.k = "inf" THEN (IF a.n = b.n THEN a ELSE NaN)
    ELSE IF a.k = "inf" THEN a
    ELSE IF b.k = "inf" THEN b
    ELSE Fin(a.n * b.d + b.n * a.d, a.d * b.d)

FSub(a, b) == FAdd(a, FNeg(b))

FMul(a, b) ==
    IF a.k = "nan" \/ b.k = "nan" THEN NaN
    ELSE IF a.k = "inf" \/ b.k = "inf"
         THEN (IF Sign(a) * Sign(b) = 0 THEN NaN ELSE Inf(Sign(a) * Sign(b)))
    ELSE Fin(a.n * b.n, a.d * b.d)

\* division of a float by a non-zero integer
FDiv(a, i) ==
    IF a.k = "nan" THEN NaN
    ELSE IF a.k = "inf" THEN Inf(a.n * (IF i < 0 THEN -1 ELSE 1))
    ELSE Fin(a.n, a.d * i)

\* a < b in IEEE semantics: every comparison with NaN is false
FLt(a, b) ==
    IF a.k = "nan" \/ b.k = "nan" THEN FALSE
    ELSE IF a.k = "inf" /\ b.k = "inf" THEN a.n < b.n
    ELSE IF a.k = "inf" THEN a.n < 0
    ELSE IF b.k = "inf" THEN b.n > 0
    ELSE a.n * b.d < b.n * a.d

\* ------------------------------------------------------------- data shapes
CeilDiv(a, b) == (a + b - 1) \div b

\* train_test_split(test_size=0.2): n_test = ceil(0.2 * n), n_train = n - n_test
NVal(rows) == CeilDiv(rows, TestSizeDen)
NTrain(rows) == rows - NVal(rows)

\* len(DataLoader): number of batches, the last one possibly partial
NumBatches(n, bs) == CeilDiv(n, bs)

\* number of samples in batch i (0-based) of a loader over n samples
BatchCount(n, bs, i) == IF (i + 1) * bs <= n THEN bs ELSE n - i * bs

\* ------------------------------------------------------------------- state
VARIABLES
    cfg,               \* parsed arguments and the input data (fixed per run)
    pc,                \* position of the program
    outdir_exists,     \* the output directory exists on disk
    written,           \* artifacts written by this run
    epoch,             \* index of the current iteration of the epoch loop
    batch_idx,         \* index of the current training batch
    fwd,               \* output of the last forward pass: elementwise sums
    rec_err, kl_divergence, loss,
    grad,              \* gradient buffers: zeroed in this batch, filled by backward, clipped
    theta,             \* model parameters: number of optimizer steps applied
    sched_steps,       \* number of scheduler.step() calls
    running_loss, running_rec_loss, running_kl_loss, running_loss_val,
    mean_loss_val,     \* validation loss of the epoch (val_loss in the library variant)
    counter, best_val_loss,
    train_loss, val_loss, train_rec_loss, train_kl_loss

fsVars == <<outdir_exists, written>>
batchVars == <<batch_idx, fwd, rec_err, kl_divergence, loss, grad>>
modelVars == <<theta, sched_steps>>
runVars == <<running_loss, running_rec_loss, running_kl_loss, running_loss_val, mean_loss_val>>
stopVars == <<counter, best_val_loss>>
curveVars == <<train_loss, val_loss, train_rec_loss, train_kl_loss>>
vars == <<cfg, pc, fsVars, epoch, batchVars, modelVars, runVars, stopVars, curveVars>>

\* ------------------------------------------------------------------ inputs
\* with MaxRows rows the loader then yields a full batch and a partial one
BatchSizes == {MaxBatch}
Betas == {0, 2}
\* per-sample elementwise sums a forward pass can yield on validation data
ValOutcomes == {[rec |-> Fin(1, 1), kl |-> Fin(1, 1)],
                [rec |-> Fin(2, 1), kl |-> Fin(1, 1)],
                [rec |-> NaN, kl |-> Fin(1, 1)]}
\* per-sample elementwise sums of a forward pass on training data
TrainOutcome == [rec |-> Fin(1, 1), kl |-> Fin(1, 1)]

ScriptConfigs ==
    [variant : {"script"},
     num_epochs : (-1) .. (ScriptPatience + MaxExtraEpochs),
     batch_size : BatchSizes,
     beta : Betas,
     retrain : BOOLEAN,
     save : {TRUE},
     min_delta : {Fin(1, ScriptMinDeltaDen)},
     rows : {MaxRows},
     had_ckpt : BOOLEAN,
     had_outdir : BOOLEAN]

\* validation outcomes drawn in the library variant
LibValOutcomes == {o \in ValOutcomes : IsFinite(o.rec)}
MinDeltas == {Fin(0, 1), Fin(1, 1), Fin(-2, 1)}

LibConfigs ==
    [variant : {"lib"},
     num_epochs : (-1) .. (LibPatience + MaxExtraEpochs),
     batch_size : {MaxBatch},
     beta : {1},
     retrain : BOOLEAN,
     save : BOOLEAN,
     min_delta : MinDeltas,
     rows : {MaxRows},
     had_ckpt : BOOLEAN,
     had_outdir : BOOLEAN]

Patience == IF cfg.variant = "script" THEN ScriptPatience ELSE LibPatience
n_train == NTrain(cfg.rows)
n_val == NVal(cfg.rows)
\* len(data_loader)
len_data_loader == NumBatches(n_train, cfg.batch_size)

\* the state after argument parsing; the output directory pre-exists exactly
\* when an earlier run left its checkpoint in it
Init ==
    /\ cfg \in ScriptConfigs \cup LibConfigs
    /\ cfg.had_outdir = cfg.had_ckpt
    /\ cfg.retrain => cfg.had_ckpt
    /\ pc = "start"
    /\ outdir_exists = cfg.had_outdir
    /\ written = {}
    /\ epoch = 0
    /\ batch_idx = 0
    /\ fwd = [rec |-> Zero, kl |-> Zero]
    /\ rec_err = Zero /\ kl_divergence = Zero /\ loss = Zero
    /\ grad = [fresh |-> FALSE, computed |-> FALSE, clipped |-> FALSE]
    /\ theta = 0
    /\ sched_steps = 0
    /\ running_loss = Zero /\ running_rec_loss = Zero
    /\ running_kl_loss = Zero /\ running_loss_val = Zero
    /\ mean_loss_val = Zero
    /\ counter = 0
    /\ best_val_loss = Inf(1)
    /\ train_loss = <<>> /\ val_loss = <<>>
    /\ train_rec_loss = <<>> /\ train_kl_loss = <<>>

\* ------------------------------------------------- script: src/simulations.py
\* lines 250-263: make the output directory, skip training when the model
\* file exists and retrain is false
CheckModelFile ==
    /\ pc = "start" /\ cfg.variant = "script"
    /\ outdir_exists' = TRUE
    /\ pc' = IF cfg.had_ckpt /\ ~cfg.retrain THEN "exited" ELSE "load"
    /\ UNCHANGED <<cfg, written, epoch, batchVars, modelVars, runVars, stopVars, curveVars>>

\* lines 269-364: load, normalise, split, store the split, build the loader
LoadData ==
    /\ pc = "load"
    /\ written' = written \cup {"data"}
    /\ pc' = "setup"
    /\ UNCHANGED <<cfg, outdir_exists, epoch, batchVars, modelVars, runVars, stopVars, curveVars>>

\* lines 374-418: model, optimizer, scheduler, early-stopping state, curves
SetupTraining ==
    /\ pc = "setup"
    /\ theta' = 0 /\ sched_steps' = 0
    /\ counter' = 0 /\ best_val_loss' = Inf(1)
    /\ train_loss' = <<>> /\ val_loss' = <<>>
    /\ train_rec_loss' = <<>> /\ train_kl_loss' = <<>>
    /\ pc' = "epoch_head"
    /\ UNCHANGED <<cfg, fsVars, epoch, batchVars, runVars>>

\* lines 419-428: for epoch in range(num_epochs), reset of the running sums
EpochHead ==
    /\ pc = "epoch_head"
    /\ IF epoch < cfg.num_epochs
       THEN /\ running_loss' = Zero /\ running_rec_loss' = Zero
            /\ running_kl_loss' = Zero /\ running_loss_val' = Zero
            /\ batch_idx' = 0
            /\ pc' = "zero_grad"
            /\ UNCHANGED <<mean_loss_val, fwd, rec_err, kl_divergence, loss, grad>>
       ELSE /\ pc' = "save_model"
            /\ UNCHANGED <<runVars, batchVars>>
    /\ UNCHANGED <<cfg, fsVars, epoch, modelVars, stopVars, curveVars>>

\* the batch without optimizer.zero_grad(): gradients keep accumulating
ZeroGradMissing ==
    /\ pc = "zero_grad"
    /\ grad' = [grad EXCEPT !.computed = FALSE, !.clipped = FALSE]
    /\ pc' = "forward"
    /\ UNCHANGED <<cfg, fsVars, epoch, batch_idx, fwd, rec_err, kl_divergence, loss,
                   modelVars, runVars, stopVars, curveVars>>

\* line 435: optimizer.zero_grad()
ZeroGrad ==
    /\ pc = "zero_grad"
    /\ grad' = [fresh |-> TRUE, computed |-> FALSE, clipped |-> FALSE]
    /\ pc' = "forward"
    /\ UNCHANGED <<cfg, fsVars, epoch, batch_idx, fwd, rec_err, kl_divergence, loss,
                   modelVars, runVars, stopVars, curveVars>>

\* line 438: forward pass over the samples of the current batch
Forward ==
    /\ pc = "forward"
    /\ LET c == BatchCount(n_train, cfg.batch_size, batch_idx)
       IN  fwd' = [rec |-> FMul(TrainOutcome.rec, Fin(c, 1)),
                   kl |-> FMul(TrainOutcome.kl, Fin(c, 1))]
    /\ pc' = "loss"
    /\ UNCHANGED <<cfg, fsVars, epoch, batch_idx, rec_err, kl_divergence, loss, grad,
                   modelVars, runVars, stopVars, curveVars>>

\* lines 440-449: reconstruction and KL terms, combined loss
ComputeLoss ==
    /\ pc = "loss"
    /\ rec_err' = FDiv(fwd.rec, cfg.batch_size)
    /\ running_rec_loss' = FAdd(running_rec_loss, rec_err')
    /\ kl_divergence' = FDiv(fwd.kl, cfg.batch_size)
    /\ running_kl_loss' = FAdd(running_kl_loss, kl_divergence')
    /\ loss' = FAdd(rec_err', FMul(Fin(cfg.beta, 1), kl_divergence'))
    /\ pc' = "backward"
    /\ UNCHANGED <<cfg, fsVars, epoch, batch_idx, fwd, grad, modelVars,
                   running_loss, running_loss_val, mean_loss_val, stopVars, curveVars>>

\* line 452: loss.backward() accumulates into the gradient buffers
Backward ==
    /\ pc = "backward"
    /\ grad' = [grad EXCEPT !.computed = TRUE, !.clipped = FALSE]
    /\ pc' = "clip"
    /\ UNCHANGED <<cfg, fsVars, epoch, batch_idx, fwd, rec_err, kl_divergence, loss,
                   modelVars, runVars, stopVars, curveVars>>

\* line 455: clip_grad_norm_(vae.parameters(), max_grad_norm)
ClipGrad ==
    /\ pc = "clip"
    /\ grad' = [grad EXCEPT !.clipped = TRUE]
    /\ pc' = "step"
    /\ UNCHANGED <<cfg, fsVars, epoch, batch_idx, fwd, rec_err, kl_divergence, loss,
                   modelVars, runVars, stopVars, curveVars>>

\* lines 457-461: optimizer.step(), accumulate the loss, next batch
OptimizerStep ==
    /\ pc = "step"
    /\ theta' = theta + 1
    /\ grad' = [grad EXCEPT !.fresh = FALSE]
    /\ running_loss' = FAdd(running_loss, loss)
    /\ batch_idx' = batch_idx + 1
    /\ pc' = IF batch_idx + 1 < len_data_loader THEN "zero_grad" ELSE "validate"
    /\ UNCHANGED <<cfg, fsVars, epoch, fwd, rec_err, kl_divergence, loss, sched_steps,
                   running_rec_loss, running_kl_loss, running_loss_val, mean_loss_val,
                   stopVars, curveVars>>

\* lines 463-480: one forward pass over the whole validation set
ValidationPass ==
    /\ pc = "validate"
    /\ \E o \in ValOutcomes :
         /\ fwd' = [rec |-> FMul(o.rec, Fin(n_val, 1)), kl |-> FMul(o.kl, Fin(n_val, 1))]
         /\ rec_err' = FDiv(fwd'.rec, n_val)
         /\ kl_divergence' = FDiv(fwd'.kl, n_val)
         /\ loss' = FAdd(rec_err', FMul(Fin(cfg.beta, 1), kl_divergence'))
         /\ running_loss_val' = FAdd(running_loss_val, loss')
    /\ pc' = "means"
    /\ UNCHANGED <<cfg, fsVars, epoch, batch_idx, grad, modelVars, running_loss,
                   running_rec_loss, running_kl_loss, mean_loss_val, stopVars, curveVars>>

\* lines 482-496: epoch means, appended to the four curves
EpochMeans ==
    /\ pc = "means"
    /\ train_loss' = Append(train_loss, FDiv(running_loss, len_data_loader))
    /\ train_rec_loss' = Append(train_rec_loss, FDiv(running_rec_loss, len_data_loader))
    /\ train_kl_loss' = Append(train_kl_loss, FDiv(running_kl_loss, len_data_loader))
    /\ mean_loss_val' = FDiv(running_loss_val, len_data_loader)
    /\ val_loss' = Append(val_loss, mean_loss_val')
    /\ pc' = "sched"
    /\ UNCHANGED <<cfg, fsVars, epoch, batchVars, modelVars, running_loss,
                   running_rec_loss, running_kl_loss, running_loss_val, stopVars>>

\* lines 498-504: scheduler.step() at the end of the epoch
SchedulerStep ==
    /\ pc = "sched"
    /\ sched_steps' = sched_steps + 1
    /\ pc' = "early_stop"
    /\ UNCHANGED <<cfg, fsVars, epoch, batchVars, theta, runVars, stopVars, curveVars>>

\* the early-stopping check with the break one epoch late (counter > patience)
EarlyStopCheckLate ==
    /\ pc = "early_stop"
    /\ IF FLt(mean_loss_val, FSub(best_val_loss, cfg.min_delta))
       THEN /\ best_val_loss' = mean_loss_val
            /\ counter' = 0
            /\ epoch' = epoch + 1
            /\ pc' = "epoch_head"
       ELSE /\ counter' = counter + 1
            /\ best_val_loss' = best_val_loss
            /\ IF counter + 1 > Patience
               THEN pc' = "save_model" /\ epoch' = epoch
               ELSE pc' = "epoch_head" /\ epoch' = epoch + 1
    /\ UNCHANGED <<cfg, fsVars, batchVars, modelVars, runVars, curveVars>>

\* lines 506-514: early-stopping check, break or next iteration
EarlyStopCheck ==
    /\ pc = "early_stop"
    /\ IF FLt(mean_loss_val, FSub(best_val_loss, cfg.min_delta))
       THEN /\ best_val_loss' = mean_loss_val
            /\ counter' = 0
            /\ epoch' = epoch + 1
            /\ pc' = "epoch_head"
       ELSE /\ counter' = counter + 1
            /\ best_val_loss' = best_val_loss
            /\ IF counter + 1 >= Patience
               THEN pc' = "save_model" /\ epoch' = epoch
               ELSE pc' = "epoch_head" /\ epoch' = epoch + 1
    /\ UNCHANGED <<cfg, fsVars, batchVars, modelVars, runVars, curveVars>>

\* lines 516-518: pickle.dump(vae) into the model file
SaveModel ==
    /\ pc = "save_model"
    /\ written' = written \cup {"model"}
    /\ pc' = "save_curves"
    /\ UNCHANGED <<cfg, outdir_exists, epoch, batchVars, modelVars, runVars, stopVars, curveVars>>

\* lines 520-522: the training curves as a table
SaveCurves ==
    /\ pc = "save_curves"
    /\ written' = written \cup {"curves"}
    /\ pc' = "done"
    /\ UNCHANGED <<cfg, outdir_exists, epoch, batchVars, modelVars, runVars, stopVars, curveVars>>

\* ------------------------------------------- library: src/snDGM/sndgm/avae.py
\* sum over the batches i.. of a loader of the per-batch values f[count]
RECURSIVE SumBatches(_, _, _, _)
SumBatches(n, bs, i, f) ==
    IF i >= NumBatches(n, bs) THEN Zero
    ELSE FAdd(f[BatchCount(n, bs, i)], SumBatches(n, bs, i + 1, f))

\* utils.loss_function: reconstruction plus KL term, summed over the batch
loss_function(rec, kl) == FAdd(rec, kl)

\* utils.train_vae: one pass over the training loader, one optimizer step per
\* batch; returns the mean over the batches of the per-sample batch loss
train_vae(n, bs) ==
    FDiv(SumBatches(n, bs, 0,
            [c \in 1..bs |-> FDiv(loss_function(FMul(TrainOutcome.rec, Fin(c, 1)),
                                                FMul(TrainOutcome.kl, Fin(c, 1))), c)]),
         NumBatches(n, bs))

\* lines 62-101: data, split, loaders, model, optimizer, scheduler, counters
LibSetup ==
    /\ pc = "start" /\ cfg.variant = "lib"
    /\ theta' = 0 /\ sched_steps' = 0
    /\ counter' = 0 /\ best_val_loss' = Inf(1)
    /\ train_loss' = <<>> /\ val_loss' = <<>>
    /\ UNCHANGED <<train_rec_loss, train_kl_loss>>
    /\ pc' = "lib_head"
    /\ UNCHANGED <<cfg, fsVars, epoch, batchVars, runVars>>

\* line 103: for epoch in range(args.epochs)
LibEpochHead ==
    /\ pc = "lib_head"
    /\ pc' = IF epoch < cfg.num_epochs THEN "lib_train" ELSE "lib_save_model"
    /\ UNCHANGED <<cfg, fsVars, epoch, batchVars, modelVars, runVars, stopVars, curveVars>>

\* lines 105-107: train_vae over the training loader, train loss appended
LibTrain ==
    /\ pc = "lib_train"
    /\ theta' = theta + len_data_loader
    /\ train_loss' = Append(train_loss, train_vae(n_train, cfg.batch_size))
    /\ pc' = "lib_validate"
    /\ UNCHANGED <<cfg, fsVars, epoch, batchVars, sched_steps, runVars, stopVars,
                   val_loss, train_rec_loss, train_kl_loss>>

\* lines 109-118: validation over the validation loader, divided by the
\* number of validation samples, appended
LibValidate ==
    /\ pc = "lib_validate"
    /\ \E o \in LibValOutcomes :
         mean_loss_val' =
            FDiv(SumBatches(n_val, cfg.batch_size, 0,
                    [c \in 1..cfg.batch_size |->
                        loss_function(FMul(o.rec, Fin(c, 1)), FMul(o.kl, Fin(c, 1)))]),
                 n_val)
    /\ val_loss' = Append(val_loss, mean_loss_val')
    /\ pc' = "lib_early_stop"
    /\ UNCHANGED <<cfg, fsVars, epoch, batchVars, modelVars, running_loss,
                   running_rec_loss, running_kl_loss, running_loss_val, stopVars,
                   train_loss, train_rec_loss, train_kl_loss>>

\* lines 120-135: early-stopping check; scheduler.step() unless the loop breaks
LibEarlyStop ==
    /\ pc = "lib_early_stop"
    /\ IF FLt(mean_loss_val, FSub(best_val_loss, cfg.min_delta))
       THEN /\ best_val_loss' = mean_loss_val
            /\ counter' = 0
            /\ sched_steps' = sched_steps + 1
            /\ epoch' = epoch + 1
            /\ pc' = "lib_head"
       ELSE /\ counter' = counter + 1
            /\ best_val_loss' = best_val_loss
            /\ IF counter + 1 >= Patience
               THEN pc' = "lib_save_model" /\ epoch' = epoch /\ sched_steps' = sched_steps
               ELSE pc' = "lib_head" /\ epoch' = epoch + 1 /\ sched_steps' = sched_steps + 1
    /\ UNCHANGED <<cfg, fsVars, batchVars, theta, runVars, curveVars>>

\* the model written whatever the save flag says
LibSaveModelAlways ==
    /\ pc = "lib_save_model"
    /\ outdir_exists' = TRUE /\ written' = written \cup {"model"}
    /\ pc' = "lib_save_emb"
    /\ UNCHANGED <<cfg, epoch, batchVars, modelVars, runVars, stopVars, curveVars>>

\* lines 137-141: if save: makedirs(outdir), torch.save(state_dict)
LibSaveModel ==
    /\ pc = "lib_save_model"
    /\ IF cfg.save
       THEN outdir_exists' = TRUE /\ written' = written \cup {"model"}
       ELSE UNCHANGED fsVars
    /\ pc' = "lib_save_emb"
    /\ UNCHANGED <<cfg, epoch, batchVars, modelVars, runVars, stopVars, curveVars>>

\* lines 143-156: embeddings of all rows, written into outdir; the write
\* raises when the directory does not exist
LibSaveEmbeddings ==
    /\ pc = "lib_save_emb"
    /\ IF outdir_exists
       THEN written' = written \cup {"embeddings"} /\ pc' = "lib_save_losses"
       ELSE written' = written /\ pc' = "io_error"
    /\ UNCHANGED <<cfg, outdir_exists, epoch, batchVars, modelVars, runVars, stopVars, curveVars>>

\* lines 158-161: training and validation losses
LibSaveLosses ==
    /\ pc = "lib_save_losses"
    /\ written' = written \cup {"curves"}
    /\ pc' = "lib_save_hyper"
    /\ UNCHANGED <<cfg, outdir_exists, epoch, batchVars, modelVars, runVars, stopVars, curveVars>>

\* lines 163-170: hyperparameters
LibSaveHyper ==
    /\ pc = "lib_save_hyper"
    /\ written' = written \cup {"hyper"}
    /\ pc' = "done"
    /\ UNCHANGED <<cfg, outdir_exists, epoch, batchVars, modelVars, runVars, stopVars, curveVars>>

Next ==
    \/ LibSetup \/ LibEpochHead \/ LibTrain \/ LibValidate \/ LibEarlyStop
    \/ LibSaveModel \/ LibSaveEmbeddings \/ LibSaveLosses \/ LibSaveHyper
    \/ CheckModelFile \/ LoadData \/ SetupTraining \/ EpochHead
    \/ ZeroGrad \/ Forward \/ ComputeLoss \/ Backward \/ ClipGrad \/ OptimizerStep
    \/ ValidationPass \/ EpochMeans \/ SchedulerStep \/ EarlyStopCheck
    \/ SaveModel \/ SaveCurves

Spec == Init /\ [][Next]_vars

\* ================================================================== claims
IsScript == cfg.variant = "script"
IsLib == cfg.variant = "lib"

\* positions inside the body of an epoch: training batches, validation pass,
\* curve appends
InEpochBody ==
    pc \in {"zero_grad", "forward", "loss", "backward", "clip", "step",
            "validate", "means", "lib_train", "lib_validate"}
\* positions after the epoch loop
AfterLoop ==
    pc \in {"save_model", "save_curves", "lib_save_model", "lib_save_emb",
            "lib_save_losses", "lib_save_hyper", "done", "io_error"}
Last(seq) == seq[Len(seq)]

\* number of consecutive most recent entries of a validation-loss sequence
\* that did not improve on the best earlier entry by more than min_delta
RECURSIVE Replay(_, _, _, _)
Replay(seq, i, best, run) ==
    IF i > Len(seq) THEN run
    ELSE IF FLt(seq[i], FSub(best, cfg.min_delta))
         THEN Replay(seq, i + 1, seq[i], 0)
         ELSE Replay(seq, i + 1, best, run + 1)
NonImproving(seq) == Replay(seq, 1, Inf(1), 0)

\* C1: once the validation loss has failed to improve for `patience`
\* consecutive epochs the loop halts in that very epoch: the body of no later
\* epoch (training batch, validation pass, curve append) is executed, also
\* when epochs remain in the budget.
C1_EarlyStopHalts ==
    LET t == NonImproving(val_loss)
    IN  /\ (InEpochBody \/ pc \in {"epoch_head", "lib_head"}) => t < Patience
        /\ t >= Patience
              => /\ t = Patience
                 /\ Len(val_loss) = epoch + 1
                 /\ Len(train_loss) = epoch + 1
                 /\ pc \in {"sched", "early_stop", "lib_early_stop"} \/ AfterLoop

C1_Witness ==
    /\ pc = "done"
    /\ NonImproving(val_loss) = Patience
    /\ epoch + 1 < cfg.num_epochs

C3_AbortOnNonFinite ==
    \A i \in 1..Len(val_loss) :
        ~IsFinite(val_loss[i])
            => /\ i = Len(val_loss)
               /\ pc \notin {"epoch_head", "lib_head", "done"}
               /\ "model" \notin written

\* C4: with a prior checkpoint and retrain false no epoch is trained and no
\* checkpoint or loss-curve artifact is written.
C4_SkipWhenCheckpoint ==
    (cfg.had_ckpt /\ ~cfg.retrain)
        => /\ theta = 0
           /\ ~InEpochBody
           /\ train_loss = <<>> /\ val_loss = <<>>
           /\ written \cap {"model", "curves"} = {}
           /\ pc \notin {"io_error", "done"}

\* number of epochs whose body has been completed
EpochsProcessed == IF counter >= Patience THEN epoch + 1 ELSE epoch

\* C6: at every epoch boundary all per-epoch series have the same length,
\* the number of epochs processed; at Finished that length is at least 1 and
\* at most the configured number of epochs.
C6_CurveLengths ==
    /\ (pc \in {"epoch_head", "lib_head"} \/ AfterLoop)
          => /\ Len(train_loss) = EpochsProcessed
             /\ Len(val_loss) = EpochsProcessed
             /\ IsScript => /\ Len(train_rec_loss) = EpochsProcessed
                            /\ Len(train_kl_loss) = EpochsProcessed
    /\ pc = "done" => /\ Len(val_loss) >= 1
                      /\ Len(val_loss) <= cfg.num_epochs

\* C7: a run configured with epochs <= 0 is rejected at startup: it never
\* exports an untrained model with an empty loss curve.
C7_RejectInvalid ==
    cfg.num_epochs <= 0 => /\ written \cap {"model", "curves", "embeddings", "hyper"} = {}
                           /\ pc # "done"

\* C8: the validation loss appended and compared in an epoch is the combined
\* loss of the validation pass, each term divided by the number of
\* validation samples and by nothing else.
C8_ValLossIsCombined ==
    pc \in {"sched", "early_stop"}
        => /\ mean_loss_val = Last(val_loss)
           /\ Last(val_loss) =
                FAdd(FDiv(fwd.rec, n_val),
                     FMul(Fin(cfg.beta, 1), FDiv(fwd.kl, n_val)))

\* C9: in every training batch the optimizer step is applied to gradients
\* that were zeroed at the start of the batch, filled by its backward pass
\* and clipped afterwards; the steps of a batch come in the order zero,
\* forward, loss, backward, clip, step, and the next batch starts only after
\* the optimizer step.
C9_BatchOrder ==
    /\ [](IsScript =>
            /\ pc \in {"forward", "loss", "backward"}
                  => grad.fresh /\ ~grad.computed /\ ~grad.clipped
            /\ pc = "clip" => grad.fresh /\ grad.computed /\ ~grad.clipped
            /\ pc = "step" => grad.fresh /\ grad.computed /\ grad.clipped)
    /\ [][IsScript =>
            /\ theta' # theta
                  => /\ grad.fresh /\ grad.computed /\ grad.clipped
                     /\ theta' = theta + 1
            /\ (batch_idx' # batch_idx /\ batch_idx' # 0)
                  => batch_idx' = batch_idx + 1 /\ theta' = theta + 1]_vars

C9_Witness ==
    /\ IsScript /\ pc = "step" /\ batch_idx = 1 /\ epoch = 1
    /\ theta = 1 + len_data_loader

\* C10: the reconstruction and KL terms of a training batch are the
\* elementwise sums divided by the number of samples in that batch, and the
\* epoch means are the running sums divided by the number of batches.
C10_PerBatchAverage ==
    /\ pc = "backward"
          => LET c == BatchCount(n_train, cfg.batch_size, batch_idx)
             IN  /\ rec_err = FDiv(fwd.rec, c)
                 /\ kl_divergence = FDiv(fwd.kl, c)
    /\ pc = "sched"
          => /\ Last(train_rec_loss) = FDiv(running_rec_loss, len_data_loader)
             /\ Last(train_kl_loss) = FDiv(running_kl_loss, len_data_loader)
             /\ Last(train_loss) = FDiv(running_loss, len_data_loader)

\* the run has ended: finished, failed on a write, or skipped by the
\* checkpoint test
Terminal == pc \in {"done", "io_error", "exited"}
Max(a, b) == IF a >= b THEN a ELSE b
AllFinite(seq) == \A i \in 1..Len(seq) : IsFinite(seq[i])

\* the two terminal outcomes of the epoch loop
EarlyStopped == counter >= Patience
Exhausted == counter < Patience /\ Len(val_loss) = Max(cfg.num_epochs, 0)

\* position inside one iteration of the epoch loop, in program order
PhaseRank ==
    CASE pc = "start" -> 0
      [] pc = "load" -> 1
      [] pc = "setup" -> 2
      [] pc \in {"epoch_head", "lib_head"} -> 3
      [] pc = "lib_train" -> 4
      [] pc = "lib_validate" -> 5
      [] pc = "lib_early_stop" -> 6
      [] pc = "zero_grad" -> 4 + 6 * batch_idx
      [] pc = "forward" -> 5 + 6 * batch_idx
      [] pc = "loss" -> 6 + 6 * batch_idx
      [] pc = "backward" -> 7 + 6 * batch_idx
      [] pc = "clip" -> 8 + 6 * batch_idx
      [] pc = "step" -> 9 + 6 * batch_idx
      [] pc = "validate" -> 4 + 6 * len_data_loader
      [] pc = "means" -> 5 + 6 * len_data_loader
      [] pc = "sched" -> 6 + 6 * len_data_loader
      [] pc = "early_stop" -> 7 + 6 * len_data_loader
      [] pc \in {"save_model", "lib_save_model"} -> 10 + 6 * len_data_loader
      [] pc \in {"save_curves", "lib_save_emb"} -> 11 + 6 * len_data_loader
      [] pc = "lib_save_losses" -> 12 + 6 * len_data_loader
      [] pc = "lib_save_hyper" -> 13 + 6 * len_data_loader
      [] OTHER -> 14 + 6 * len_data_loader

\* the steps that decide whether the epoch loop continues
LoopControl == EpochHead \/ LibEpochHead \/ EarlyStopCheck \/ LibEarlyStop

\* what C11 states of every reachable state, given whether the validation
\* losses seen so far are required to be finite numbers
LoopInvariant(finiteOnly) ==
    /\ pc \in {"epoch_head", "lib_head", "early_stop", "lib_early_stop"}
          => ENABLED LoopControl
    /\ epoch <= Max(cfg.num_epochs, 0)
    /\ batch_idx <= len_data_loader
    /\ Len(train_loss) >= 1 => Len(val_loss) <= cfg.num_epochs
    /\ (InEpochBody \/ pc \in {"epoch_head", "lib_head", "sched",
                                "early_stop", "lib_early_stop"})
          => counter < Patience
    /\ AfterLoop => (EarlyStopped # Exhausted)
    /\ (cfg.num_epochs <= Patience /\ (finiteOnly => AllFinite(val_loss)))
          => ~EarlyStopped

\* each step advances the run: a later epoch, or a later position of the
\* same epoch
Progress == (epoch' > epoch) \/ (epoch' = epoch /\ PhaseRank' > PhaseRank)

C11_TerminatesFiniteLosses == []LoopInvariant(TRUE) /\ [][Progress]_vars

\* an epoch boundary: the early-stopping test of the last processed epoch
\* is done and the next epoch, if any, has not started
EpochBoundary == pc \in {"epoch_head", "lib_head"} \/ AfterLoop
SomeFinite(seq) == \E i \in 1..Len(seq) : IsFinite(seq[i])
ValidMinDelta == ~FLt(cfg.min_delta, Zero)

\* the early-stopping state at epoch boundaries
BoundaryInvariant ==
    /\ 0 <= counter /\ counter <= Patience
    /\ pc \in {"epoch_head", "lib_head"} => counter < Patience
    /\ EpochBoundary => counter = NonImproving(val_loss)
    /\ Len(val_loss) = 0 => best_val_loss = Inf(1)
    /\ (EpochBoundary /\ SomeFinite(val_loss)) => IsFinite(best_val_loss)

\* how one step may change best_val_loss
BestStep ==
    /\ ~FLt(best_val_loss, best_val_loss')
    /\ best_val_loss' # best_val_loss => counter' = 0
    /\ (/\ pc \in {"early_stop", "lib_early_stop"}
        /\ best_val_loss = Inf(1)
        /\ IsFinite(mean_loss_val))
          => (counter' = 0 /\ best_val_loss' = mean_loss_val)

\* C12: at every epoch boundary 0 <= counter <= patience, counter < patience
\* when a new epoch begins, and counter is the number of consecutive most
\* recent epochs whose validation loss was not below
\* best_val_loss - min_delta; best_val_loss starts at +infinity, never
\* increases, changes only in a step that resets counter to 0, and the first
\* finite validation loss is taken as an improvement.
C12_EarlyStoppingState == []BoundaryInvariant /\ [][BestStep]_vars

\* C12 restricted to runs whose min_delta is not negative
C12_ValidMinDelta ==
    [](ValidMinDelta => BoundaryInvariant) /\ [][ValidMinDelta => BestStep]_vars

====
